---- MODULE Spec2Model ----
(***************************************************************************)
(* Encrypted multi-backend storage layer of the pharmacy inventory         *)
(* application: the cipher service, the three storage backends (browser    *)
(* localStorage, Supabase, Google Drive) and the StorageManager that fans  *)
(* writes out to the enabled backends, reads with failover, copies         *)
(* ("syncs") records between backends and collects usage statistics.       *)
(*                                                                         *)
(* Asynchronous manager operations are modelled one loop iteration per     *)
(* step; a backend call with everything it awaits is one step.  What the   *)
(* browser, the network and the remote services answer is an input of the  *)
(* step (its "env"), drawn from the outcomes the code distinguishes.       *)
(***************************************************************************)
EXTENDS Integers, Sequences, FiniteSets, TLC

VARIABLES
    config,     \* StorageConfig of the manager: userId, encryptionKey, enabledStorages
    lsItems,    \* localStorage: the record entries (one per storage key)
    lsIndex,    \* localStorage: the per-user index entry, [Users -> Seq(index item)]
    sbRows,     \* Supabase: rows of table encrypted_data
    sbProfile,  \* Supabase: profiles.encrypted_data, the document of each user's row
    gdToken,    \* Google Drive: accessToken is set
    gdFolder,   \* Google Drive: the PharmaCare_Encrypted_Data folder exists
    gdFiles,    \* Google Drive: files of the folder
    nextId,     \* next identifier crypto.randomUUID() / the services hand out
    now,        \* the clock read by Date.now() / new Date()
    call,       \* the StorageManager call in progress or last completed
    auth,       \* the auth store: user, encryptionKey, isAuthenticated
    authStorage,\* the persisted snapshot of the auth store ('auth-storage')
    last,       \* the last call made directly to a backend or to the cipher service
    sessions    \* the Local call each browser session (tab) is in the middle of

vars == <<config, lsItems, lsIndex, sbRows, sbProfile, gdToken, gdFolder, gdFiles,
          nextId, now, call, auth, authStorage, last, sessions>>

lsVars == <<lsItems, lsIndex>>
sbVars == <<sbRows, sbProfile>>
gdVars == <<gdToken, gdFolder, gdFiles>>
authVars == <<auth, authStorage>>

----------------------------------------------------------------------------
(* Bounds of the model *)

\* identifiers handed out in one behaviour
MaxIds == 3
\* the clock runs from 0 to MaxTime
MaxTime == 1
\* successive syncData calls of one data type
MaxRun == 2

----------------------------------------------------------------------------
(* The values of the program *)

Backends == {"local", "supabase", "google-drive"}

Users == {"u1", "u2"}

\* data-type tags as character sequences: "s" is a prefix of "ss"
DataTypes == {<<"s">>, <<"s", "s">>}

\* records handed to the layer: a plain object, and an object with a NaN field
DataValues == {"rec", "recNaN"}

Keys == {"k1"}

\* file.id / result of a response body that carries no id
Undefined == -1

Range(s) == {s[i] : i \in 1..Len(s)}

\* the lists a user can enable: any selection of the three backends, in any order,
\* each at most once (the setup pages add a backend only when it is not included)
EnabledLists ==
    {s \in UNION {[1..n -> Backends] : n \in 0..Cardinality(Backends)} :
        \A i, j \in 1..Len(s) : i # j => s[i] # s[j]}

----------------------------------------------------------------------------
(* Cipher service *)

\* JSON.stringify: a NaN or Infinity field is written as null, a field that is
\* undefined is left out, a Date is written as its ISO string
JsonStringify(v) ==
    CASE v = "rec" -> "json:rec"
      [] v = "recNaN" -> "json:recNull"
      [] v = "recInfinity" -> "json:recNull"
      [] v = "recNull" -> "json:recNull"
      [] v = "recUndefined" -> "json:recEmpty"
      [] v = "recEmpty" -> "json:recEmpty"
      [] v = "recDate" -> "json:recIsoString"
      [] v = "recIsoString" -> "json:recIsoString"
      [] v = "text" -> "json:text"

JsonParse(s) ==
    CASE s = "json:rec" -> "rec"
      [] s = "json:recNull" -> "recNull"
      [] s = "json:recEmpty" -> "recEmpty"
      [] s = "json:recIsoString" -> "recIsoString"
      [] s = "json:text" -> "text"

\* CryptoJS.AES.encrypt(JSON.stringify(data), key): a ciphertext only the key opens
encryptData(data, encryptionKey) ==
    [cipher |-> JsonStringify(data), key |-> encryptionKey]

\* decryptData throws unless the key is the one the ciphertext was made with
decryptOk(encryptedData, encryptionKey) == encryptedData.key = encryptionKey

\* decryptData handing out the decrypted string without parsing it
decryptData_unparsed(encryptedData, encryptionKey) == encryptedData.cipher

decryptData(encryptedData, encryptionKey) == JsonParse(encryptedData.cipher)

----------------------------------------------------------------------------
(* Local backend: class LocalStorage over the browser's localStorage.      *)
(* The operators take the record entries and the index entries and give    *)
(* the outcome of the call together with the entries it leaves.            *)

\* what localStorage.setItem answers to the writes of one storeEncryptedData call:
\* w1 the record write, w2 its retry after clearOldData, wi the index write
LocalStoreEnvs ==
    {e \in [w1 : {"ok", "quota", "error"}, w2 : {"ok", "quota"}, wi : {"ok", "quota"}] :
        /\ e.w1 # "quota" => e.w2 = "ok"
        /\ (e.w1 = "error" \/ e.w2 = "quota") => e.wi = "ok"}

\* what the reads of one call answer: "error" is a getItem or JSON.parse that throws
LocalReadEnvs == {"ok", "error"}

\* the entry under key PREFIX + userId + "_" + dataType + "_" + id, as a set
LsEntry(items, userId, dataType, id) ==
    {it \in items : it.userId = userId /\ it.dataType = dataType /\ it.id = id}

\* localStorage.setItem(storageKey, item) that is accepted: replaces the entry of the key
LsSetItem(items, item) ==
    (items \ LsEntry(items, item.userId, item.dataType, item.id)) \cup {item}

\* localStorage.removeItem(storageKey)
LsRemoveItem(items, userId, dataType, id) ==
    items \ LsEntry(items, userId, dataType, id)

getIndex(index, userId) == index[userId]

\* Array.prototype.sort by createdAt (stable): insertion of x behind its equals
RECURSIVE InsertByCreatedAt(_, _)
InsertByCreatedAt(sorted, x) ==
    IF sorted = <<>> THEN <<x>>
    ELSE IF x.createdAt < Head(sorted).createdAt THEN <<x>> \o sorted
         ELSE <<Head(sorted)>> \o InsertByCreatedAt(Tail(sorted), x)

RECURSIVE SortByCreatedAt(_)
SortByCreatedAt(s) ==
    IF s = <<>> THEN <<>>
    ELSE InsertByCreatedAt(SortByCreatedAt(SubSeq(s, 1, Len(s) - 1)), s[Len(s)])

\* Math.ceil(index.length * 0.1)
ItemsToRemove(n) == (n + 9) \div 10

\* clearOldData dropping the newest tenth instead of the oldest
clearOldData_newest(items, index, userId) ==
    LET idx == getIndex(index, userId)
        itemsToRemove == ItemsToRemove(Len(idx))
        sortedItems == SortByCreatedAt(idx)
        kept == Len(sortedItems) - itemsToRemove
        gone == {sortedItems[i] : i \in (kept + 1)..Len(sortedItems)}
    IN [items |-> {it \in items :
                      ~ \E g \in gone : it \in LsEntry(items, userId, g.dataType, g.id)},
        index |-> [index EXCEPT ![userId] = SubSeq(sortedItems, 1, kept)]]

\* clearOldData: drops the oldest tenth of the user's indexed records; its own
\* failures are caught and only logged
clearOldData(items, index, userId) ==
    LET idx == getIndex(index, userId)
        itemsToRemove == ItemsToRemove(Len(idx))
        sortedItems == SortByCreatedAt(idx)
        gone == {sortedItems[i] : i \in 1..itemsToRemove}
    IN [items |-> {it \in items :
                      ~ \E g \in gone : it \in LsEntry(items, userId, g.dataType, g.id)},
        index |-> [index EXCEPT ![userId] =
                      SubSeq(sortedItems, itemsToRemove + 1, Len(sortedItems))]]

\* updateIndex: read the index, push the entry, write the index back
updateIndex(index, userId, id, dataType, t) ==
    [index EXCEPT ![userId] =
        Append(getIndex(index, userId), [id |-> id, dataType |-> dataType, createdAt |-> t])]

\* removeFromIndex: filters by id alone
removeFromIndex(index, userId, id) ==
    [index EXCEPT ![userId] = SelectSeq(getIndex(index, userId), LAMBDA e : e.id # id)]

LocalStorage_storeEncryptedData(items, index, userId, data, dataType, encryptionKey, id, t, env) ==
    LET storageItem == [id |-> id, userId |-> userId, dataType |-> dataType,
                        encryptedContent |-> encryptData(data, encryptionKey),
                        storageLocation |-> "local", createdAt |-> t, updatedAt |-> t]
        cleared == clearOldData(items, index, userId)
        written ==
            CASE env.w1 = "ok" ->
                   [thrown |-> FALSE, items |-> LsSetItem(items, storageItem), index |-> index]
              [] env.w1 = "quota" /\ env.w2 = "ok" ->
                   [thrown |-> FALSE, items |-> LsSetItem(cleared.items, storageItem),
                    index |-> cleared.index]
              [] env.w1 = "quota" /\ env.w2 # "ok" ->
                   [thrown |-> TRUE, items |-> cleared.items, index |-> cleared.index]
              [] OTHER ->
                   [thrown |-> TRUE, items |-> items, index |-> index]
    IN IF written.thrown
       THEN [ok |-> FALSE, id |-> Undefined, items |-> written.items, index |-> written.index,
             error |-> "Failed to store data locally"]
       ELSE IF env.wi = "ok"
       THEN [ok |-> TRUE, id |-> id, items |-> written.items,
             index |-> updateIndex(written.index, userId, id, dataType, t), error |-> ""]
       ELSE [ok |-> FALSE, id |-> Undefined, items |-> written.items, index |-> written.index,
             error |-> "Failed to store data locally"]

\* retrieveEncryptedData: the index entries of the data type, each looked up under
\* the key built with the requested data type; a missing entry is skipped, an entry
\* that does not decrypt makes the call throw
LocalStorage_retrieveEncryptedData(items, index, userId, dataType, encryptionKey, env) ==
    LET wanted == SelectSeq(getIndex(index, userId), LAMBDA e : e.dataType = dataType)
        found == SelectSeq(wanted, LAMBDA e : LsEntry(items, userId, dataType, e.id) # {})
        stored(e) == CHOOSE it \in LsEntry(items, userId, dataType, e.id) : TRUE
        opens == \A i \in 1..Len(found) :
                    decryptOk(stored(found[i]).encryptedContent, encryptionKey)
    IN IF env = "ok" /\ opens
       THEN [ok |-> TRUE,
             data |-> [i \in 1..Len(found) |->
                          decryptData(stored(found[i]).encryptedContent, encryptionKey)]]
       ELSE [ok |-> FALSE, data |-> <<>>]

\* deleteEncryptedData: removes the entry of the key built from its arguments, then
\* the index entry of the id
LocalStorage_deleteEncryptedData(items, index, userId, id, dataType) ==
    [items |-> LsRemoveItem(items, userId, dataType, id),
     index |-> removeFromIndex(index, userId, id)]

\* LocalStorage_updateEncryptedData writing the serialized data as it is, readable
\* without a key
LocalStorage_updateEncryptedData_plain(items, userId, id, dataType, data, encryptionKey, t, env) ==
    LET existingItem == LsEntry(items, userId, dataType, id)
        parsedItem == CHOOSE it \in existingItem : TRUE
    IN IF existingItem = {}
       THEN [ok |-> FALSE, error |-> "Item not found", items |-> items]
       ELSE IF env = "ok"
       THEN [ok |-> TRUE, error |-> "",
             items |-> LsSetItem(items, [parsedItem EXCEPT
                                            !.encryptedContent =
                                                [cipher |-> JsonStringify(data), key |-> "none"],
                                            !.updatedAt = t])]
       ELSE [ok |-> FALSE, error |-> "QuotaExceededError", items |-> items]

\* updateEncryptedData: the entry of the key built from the arguments gets the new
\* payload and updatedAt; "Item not found" when there is no such entry; env is what
\* the write of the entry answers
LocalStorage_updateEncryptedData(items, userId, id, dataType, data, encryptionKey, t, env) ==
    LET existingItem == LsEntry(items, userId, dataType, id)
        parsedItem == CHOOSE it \in existingItem : TRUE
    IN IF existingItem = {}
       THEN [ok |-> FALSE, error |-> "Item not found", items |-> items]
       ELSE IF env = "ok"
       THEN [ok |-> TRUE, error |-> "",
             items |-> LsSetItem(items, [parsedItem EXCEPT
                                            !.encryptedContent = encryptData(data, encryptionKey),
                                            !.updatedAt = t])]
       ELSE [ok |-> FALSE, error |-> "QuotaExceededError", items |-> items]

\* getStorageStats: itemCount is the length of the index; the size is summed over
\* the indexed entries that exist (here: their number)
LocalStorage_getStorageStats(items, index, userId, env) ==
    LET idx == getIndex(index, userId)
        there == {i \in 1..Len(idx) : LsEntry(items, userId, idx[i].dataType, idx[i].id) # {}}
    IN IF env = "ok"
       THEN [ok |-> TRUE, itemCount |-> Len(idx), estimatedSize |-> Cardinality(there)]
       ELSE [ok |-> FALSE, itemCount |-> 0, estimatedSize |-> 0]

----------------------------------------------------------------------------
(* Relational backend: class SupabaseStorage.  Rows of encrypted_data, and *)
(* per user the profiles row with its encrypted_data document.             *)

\* the elements of a finite set of records, ordered by id
RECURSIVE SeqById(_)
SeqById(S) ==
    IF S = {} THEN <<>>
    ELSE LET first == CHOOSE x \in S : \A y \in S : x.id <= y.id
         IN <<first>> \o SeqById(S \ {first})

\* what the service answers during one storeEncryptedData call: user is
\* auth.getUser(), tables the information_schema query, create the rpc, insert the
\* insert into encrypted_data, fetch and update the two requests of the fallback
\* (fetch "PGRST116": the user has no profiles row, so the update matches no row)
SupabaseStoreEnvs ==
    {e \in [user : BOOLEAN, tables : {"found", "missing"}, create : {"ok", "error"},
            insert : {"ok", "error"}, fetch : {"ok", "PGRST116", "error"},
            update : {"ok", "error"}] :
        LET inserts == e.user /\ (e.tables = "found" \/ e.create = "ok")
            fallback == e.user /\ (~inserts \/ e.insert = "error")
        IN /\ (~e.user \/ e.tables = "found") => e.create = "ok"
           /\ ~inserts => e.insert = "ok"
           /\ ~fallback => (e.fetch = "ok" /\ e.update = "ok")
           /\ e.fetch = "error" => e.update = "ok"
           /\ ~e.user => e.tables = "found"}

SupabaseReadEnvs == {"ok", "error"}

\* storeInProfilesTable: read the user's profiles row (no row is tolerated), add
\* the entry to the document, update the row where id = userId
storeInProfilesTable(profile, userId, dataType, encryptedContent, id, env) ==
    LET existingData == IF env.fetch = "ok" THEN profile[userId] ELSE {}
        entry == [id |-> id, data_type |-> dataType, encrypted_content |-> encryptedContent]
    IN IF env.fetch = "error" \/ env.update = "error"
       THEN [ok |-> FALSE, id |-> Undefined, profile |-> profile]
       ELSE [ok |-> TRUE, id |-> id,
             profile |-> IF env.fetch = "ok"
                         THEN [profile EXCEPT ![userId] = existingData \cup {entry}]
                         ELSE profile]

\* the errors of storeEncryptedData: the catch wraps what was thrown, the failed
\* check of the session or the error of the profiles fallback
SupabaseAuthError == "Failed to store data in Supabase: Error: User not authenticated"

SupabaseStoreError == "Failed to store data in Supabase: profiles request failed"

SupabaseStorage_storeEncryptedData(rows, profile, userId, data, dataType, encryptionKey, id, env) ==
    LET encryptedContent == encryptData(data, encryptionKey)
        row == [id |-> id, user_id |-> userId, data_type |-> dataType,
                encrypted_content |-> encryptedContent, storage_location |-> "supabase",
                updated_at |-> "default"]
        viaProfile == storeInProfilesTable(profile, userId, dataType, encryptedContent, id, env)
        fallback == [ok |-> viaProfile.ok, id |-> viaProfile.id, rows |-> rows,
                     profile |-> viaProfile.profile,
                     error |-> IF viaProfile.ok THEN "" ELSE SupabaseStoreError]
    IN IF ~env.user
       THEN [ok |-> FALSE, id |-> Undefined, rows |-> rows, profile |-> profile,
             error |-> SupabaseAuthError]
       ELSE IF env.tables = "missing" /\ env.create = "error"
       THEN fallback
       ELSE IF env.insert = "error"
       THEN fallback
       ELSE [ok |-> TRUE, id |-> id, rows |-> rows \cup {row}, profile |-> profile,
             error |-> ""]

\* retrieveEncryptedData: the rows of encrypted_data of the user, the data type and
\* storage_location 'supabase', each decrypted
SupabaseStorage_retrieveEncryptedData(rows, userId, dataType, encryptionKey, env) ==
    LET data == SeqById({r \in rows : /\ r.user_id = userId
                                       /\ r.data_type = dataType
                                       /\ r.storage_location = "supabase"})
        opens == \A i \in 1..Len(data) : decryptOk(data[i].encrypted_content, encryptionKey)
    IN IF env = "ok" /\ opens
       THEN [ok |-> TRUE,
             data |-> [i \in 1..Len(data) |->
                          decryptData(data[i].encrypted_content, encryptionKey)]]
       ELSE [ok |-> FALSE, data |-> <<>>]

\* updateEncryptedData: update ... where id = id; a request that matches no row is
\* answered without error
SupabaseStorage_updateEncryptedData(rows, id, data, encryptionKey, t, env) ==
    IF env = "ok"
    THEN [ok |-> TRUE,
          rows |-> {IF r.id = id
                    THEN [r EXCEPT !.encrypted_content = encryptData(data, encryptionKey),
                                   !.updated_at = t]
                    ELSE r : r \in rows}]
    ELSE [ok |-> FALSE, rows |-> rows]

\* deleteEncryptedData: delete ... where id = id; a request that matches no row is
\* answered without error
SupabaseStorage_deleteEncryptedData(rows, id, env) ==
    IF env = "ok"
    THEN [ok |-> TRUE, rows |-> {r \in rows : r.id # id}]
    ELSE [ok |-> FALSE, rows |-> rows]

\* listUserData: the user's rows of storage_location 'supabase'
SupabaseStorage_listUserData(rows, userId, env) ==
    LET data == SeqById({r \in rows : r.user_id = userId /\ r.storage_location = "supabase"})
    IN IF env = "ok" THEN [ok |-> TRUE, data |-> data] ELSE [ok |-> FALSE, data |-> <<>>]

----------------------------------------------------------------------------
(* Cloud file backend: class GoogleDriveStorage.                           *)

\* what the Drive API does during one call: "throw" is a fetch that rejects,
\* "errresp" an error response (its body has no id and no files)
DriveEnvs == {"ok", "throw", "errresp"}

\* `${dataType}_${Date.now()}.encrypted`
FileName(dataType, t) == dataType \o <<"_", ToString(t), ".encrypted">>

\* String.prototype.startsWith
StartsWith(name, prefix) ==
    Len(name) >= Len(prefix) /\ SubSeq(name, 1, Len(prefix)) = prefix

\* getOrCreateFolder: the folder exists afterwards when the API answers
getOrCreateFolder(folder, env) == IF env = "ok" THEN TRUE ELSE folder

\* the errors of the Drive calls: the check of the access token, a fetch that rejects
DriveAuthError == "Not authenticated with Google Drive"

DriveFetchError == "TypeError: Failed to fetch"

\* GoogleDriveStorage_storeEncryptedData without the check of the access token
GoogleDriveStorage_storeEncryptedData_noTokenCheck(token, folder, files, data, dataType, encryptionKey, id, t, env) ==
    LET file == [id |-> id, name |-> FileName(dataType, t),
                 content |-> encryptData(data, encryptionKey)]
    IN IF env = "throw"
       THEN [ok |-> FALSE, id |-> Undefined, folder |-> folder, files |-> files,
             error |-> DriveFetchError]
       ELSE IF env = "errresp"
       THEN [ok |-> TRUE, id |-> Undefined, folder |-> folder, files |-> files, error |-> ""]
       ELSE [ok |-> TRUE, id |-> id, folder |-> getOrCreateFolder(folder, env),
             files |-> files \cup {file}, error |-> ""]

GoogleDriveStorage_storeEncryptedData(token, folder, files, data, dataType, encryptionKey, id, t, env) ==
    LET file == [id |-> id, name |-> FileName(dataType, t),
                 content |-> encryptData(data, encryptionKey)]
    IN IF ~token
       THEN [ok |-> FALSE, id |-> Undefined, folder |-> folder, files |-> files,
             error |-> DriveAuthError]
       ELSE IF env = "throw"
       THEN [ok |-> FALSE, id |-> Undefined, folder |-> folder, files |-> files,
             error |-> DriveFetchError]
       ELSE IF env = "errresp"
       THEN [ok |-> TRUE, id |-> Undefined, folder |-> folder, files |-> files, error |-> ""]
       ELSE [ok |-> TRUE, id |-> id, folder |-> getOrCreateFolder(folder, env),
             files |-> files \cup {file}, error |-> ""]

\* listEncryptedFiles: result.files || []
GoogleDriveStorage_listEncryptedFiles(token, folder, files, env) ==
    IF ~token \/ env = "throw"
    THEN [ok |-> FALSE, files |-> <<>>, folder |-> folder]
    ELSE IF env = "errresp"
    THEN [ok |-> TRUE, files |-> <<>>, folder |-> folder]
    ELSE [ok |-> TRUE, files |-> SeqById(files), folder |-> getOrCreateFolder(folder, env)]

\* retrieveEncryptedData(fileId): fetch the file's content and decrypt it
GoogleDriveStorage_retrieveEncryptedData(token, file, encryptionKey, env) ==
    IF token /\ env = "ok" /\ decryptOk(file.content, encryptionKey)
    THEN [ok |-> TRUE, data |-> decryptData(file.content, encryptionKey)]
    ELSE [ok |-> FALSE, data |-> "none"]

----------------------------------------------------------------------------
(* Storage Manager: class StorageManager.                                  *)

enabledStorages == config.enabledStorages

EmptyMap == [x \in {} |-> TRUE]

\* results[storage] = value
Put(map, key, value) ==
    [x \in DOMAIN map \cup {key} |-> IF x = key THEN value ELSE map[x]]

\* the call record: the locals of the running operation, its outcome, and the
\* backend calls it has made so far (attempts, writes).  For syncData it also
\* carries the history of the run of successive successful syncData calls of the
\* same data type that it continues: run their number, base what each backend held
\* when the run began, issued the stores issued to each backend, clean whether each
\* of them left its record in the backend and removed none.  pending is the backend
\* store that storeData has issued and is awaiting, caught the error its catch
\* clause received from the store that settled last ("" when it returned)
NoPending == [storage |-> "none", hung |-> FALSE]

IdleCall ==
    [op |-> "none", status |-> "returned", data |-> "rec", dataType |-> <<>>,
     i |-> 1, j |-> 1, results |-> EmptyMap, stats |-> EmptyMap, errors |-> <<>>,
     ret |-> <<>>, primaryData |-> <<>>, message |-> "", attempts |-> <<>>,
     writes |-> <<>>, run |-> 0, base |-> [b \in Backends |-> 0],
     issued |-> [b \in Backends |-> 0], clean |-> TRUE, pending |-> NoPending,
     caught |-> ""]

Running(op) == call.op = op /\ call.status = "running"

\* the clock does not run backwards
Times == {now} \cup (IF now < MaxTime THEN {now + 1} ELSE {})

\* what the outside answers to one backend's storeEncryptedData
StoreEnvs(storage) ==
    CASE storage = "local" -> LocalStoreEnvs
      [] storage = "supabase" -> SupabaseStoreEnvs
      [] OTHER -> DriveEnvs

\* the clock readings of one backend's store (the Supabase client reads none)
StoreTimes(storage) == IF storage = "supabase" THEN {now} ELSE Times

\* one backend's storeEncryptedData, as the manager calls it: whether it returned
\* (ok) and what, and the backend contents it leaves
StoreOutcome(storage, data, dataType, env, t) ==
    LET same == [ok |-> FALSE, id |-> Undefined, items |-> lsItems, index |-> lsIndex,
                 rows |-> sbRows, profile |-> sbProfile, folder |-> gdFolder,
                 files |-> gdFiles, error |-> ""]
    IN CASE storage = "google-drive" ->
              LET o == GoogleDriveStorage_storeEncryptedData(gdToken, gdFolder, gdFiles,
                           data, dataType, config.encryptionKey, nextId, t, env)
              IN [same EXCEPT !.ok = o.ok, !.id = o.id, !.folder = o.folder,
                              !.files = o.files, !.error = o.error]
         [] storage = "supabase" ->
              LET o == SupabaseStorage_storeEncryptedData(sbRows, sbProfile, config.userId,
                           data, dataType, config.encryptionKey, nextId, env)
              IN [same EXCEPT !.ok = o.ok, !.id = o.id, !.rows = o.rows,
                              !.profile = o.profile, !.error = o.error]
         [] storage = "local" ->
              LET o == LocalStorage_storeEncryptedData(lsItems, lsIndex, config.userId,
                           data, dataType, config.encryptionKey, nextId, t, env)
              IN [same EXCEPT !.ok = o.ok, !.id = o.id, !.items = o.items,
                              !.index = o.index, !.error = o.error]

\* the identifier offered to a store is used up when the store handed it out or
\* left it in the backend
IdUsed(o) ==
    \/ o.id = nextId
    \/ \E it \in o.items : it.id = nextId

\* the backends after the store, the identifier used up and the clock as read
StoreApply(o, t) ==
    /\ lsItems' = o.items
    /\ lsIndex' = o.index
    /\ sbRows' = o.rows
    /\ sbProfile' = o.profile
    /\ gdFolder' = o.folder
    /\ gdFiles' = o.files
    /\ nextId' = IF IdUsed(o) THEN nextId + 1 ELSE nextId
    /\ now' = t
    /\ UNCHANGED gdToken

\* the records of a data type that a backend physically holds for the user
HeldIds(storage, dataType, items, rows, profile, files) ==
    CASE storage = "local" ->
           {it.id : it \in {x \in items : x.userId = config.userId /\ x.dataType = dataType}}
      [] storage = "supabase" ->
           {r.id : r \in {x \in rows : x.user_id = config.userId /\ x.data_type = dataType}}
             \cup {e.id : e \in {x \in profile[config.userId] : x.data_type = dataType}}
      [] OTHER ->
           {f.id : f \in {x \in files : \E t \in 0..MaxTime : x.name = FileName(dataType, t)}}

Held(storage, dataType) ==
    Cardinality(HeldIds(storage, dataType, lsItems, sbRows, sbProfile, gdFiles))

\* the store left the record of the offered identifier in the backend and every
\* record the backend held before
StoredCleanly(storage, dataType, o) ==
    LET before == HeldIds(storage, dataType, lsItems, sbRows, sbProfile, gdFiles)
        after == HeldIds(storage, dataType, o.items, o.rows, o.profile, o.files)
    IN after = before \cup {nextId} /\ nextId \notin before

(* storeData *)

BeginStoreData(data, dataType) ==
    /\ call.status # "running"
    /\ nextId + Len(enabledStorages) <= MaxIds + 1
    /\ call' = [IdleCall EXCEPT !.op = "storeData", !.status = "running",
                                !.data = data, !.dataType = dataType]
    /\ UNCHANGED <<config, sessions, authVars, last, lsVars, sbVars, gdVars, nextId, now>>

\* storeData_collect with the key of a failed storage set in results as well
storeData_collect_keyOnFailure(c, storage, r) ==
    [c EXCEPT !.results = Put(c.results, storage, r.id),
              !.errors = IF r.ok THEN c.errors ELSE Append(c.errors, storage),
              !.attempts = Append(c.attempts, [storage |-> storage, ok |-> r.ok]),
              !.i = c.i + 1]

\* storeData_collect keeping only the latest error
storeData_collect_lastError(c, storage, r) ==
    [c EXCEPT !.results = IF r.ok THEN Put(c.results, storage, r.id) ELSE c.results,
              !.errors = IF r.ok THEN c.errors ELSE <<storage>>,
              !.attempts = Append(c.attempts, [storage |-> storage, ok |-> r.ok]),
              !.i = c.i + 1]

\* storeData_collect leaving the loop at the first storage that fails
storeData_collect_stopOnFailure(c, storage, r) ==
    [c EXCEPT !.results = IF r.ok THEN Put(c.results, storage, r.id) ELSE c.results,
              !.errors = IF r.ok THEN c.errors ELSE Append(c.errors, storage),
              !.attempts = Append(c.attempts, [storage |-> storage, ok |-> r.ok]),
              !.i = IF r.ok THEN c.i + 1 ELSE Len(enabledStorages) + 1]

\* the try/catch around one backend: results[storage] = id, or errors.push(...)
storeData_collect(c, storage, r) ==
    [c EXCEPT !.results = IF r.ok THEN Put(c.results, storage, r.id) ELSE c.results,
              !.errors = IF r.ok THEN c.errors ELSE Append(c.errors, storage),
              !.attempts = Append(c.attempts, [storage |-> storage, ok |-> r.ok]),
              !.i = c.i + 1]

StoreDataStep ==
    /\ Running("storeData")
    /\ call.i <= Len(enabledStorages)
    /\ \E env \in StoreEnvs(enabledStorages[call.i]), t \in StoreTimes(enabledStorages[call.i]) :
         LET o == StoreOutcome(enabledStorages[call.i], call.data, call.dataType, env, t)
         IN /\ call' = storeData_collect(call, enabledStorages[call.i], o)
            /\ StoreApply(o, t)
    /\ UNCHANGED <<config, sessions, authVars, last>>

\* storeData_finish throwing as soon as one storage failed
storeData_finish_anyError(c, enabled) ==
    IF Len(c.errors) > 0
    THEN [c EXCEPT !.status = "thrown", !.message = "All storage options failed"]
    ELSE [c EXCEPT !.status = "returned"]

\* after the loop: throw when every enabled storage failed, else return results
storeData_finish(c, enabled) ==
    IF Len(c.errors) = Len(enabled)
    THEN [c EXCEPT !.status = "thrown", !.message = "All storage options failed"]
    ELSE [c EXCEPT !.status = "returned"]

StoreDataFinish ==
    /\ Running("storeData")
    /\ call.i > Len(enabledStorages)
    /\ call' = storeData_finish(call, enabledStorages)
    /\ UNCHANGED <<config, sessions, authVars, last, lsVars, sbVars, gdVars, nextId, now>>

(* storeData with the call of a backend and its completion as separate steps: the
   loop calls the backend's storeEncryptedData and awaits it; the promise of a
   remote backend settles when the service has answered, or never (hung); the
   Local store is synchronous *)

CanHang(storage) == IF storage = "local" THEN {FALSE} ELSE BOOLEAN

\* the loop reaches the next storage and calls its store
StoreDataIssue ==
    /\ Running("storeData")
    /\ call.pending = NoPending
    /\ call.i <= Len(enabledStorages)
    /\ \E hung \in CanHang(enabledStorages[call.i]) :
         call' = [call EXCEPT !.pending = [storage |-> enabledStorages[call.i],
                                           hung |-> hung]]
    /\ UNCHANGED <<config, sessions, authVars, last, lsVars, sbVars, gdVars, nextId, now>>

\* the awaited store settles: the try/catch collects its outcome
StoreDataSettle ==
    /\ Running("storeData")
    /\ call.pending # NoPending
    /\ ~call.pending.hung
    /\ \E env \in StoreEnvs(call.pending.storage), t \in StoreTimes(call.pending.storage) :
         LET o == StoreOutcome(call.pending.storage, call.data, call.dataType, env, t)
         IN /\ call' = [storeData_collect(call, call.pending.storage, o)
                           EXCEPT !.pending = NoPending, !.caught = o.error]
            /\ StoreApply(o, t)
    /\ UNCHANGED <<config, sessions, authVars, last>>

\* the loop is left only when no store is awaited
StoreDataReturn ==
    /\ call.pending = NoPending
    /\ StoreDataFinish

(* retrieveData *)

ReadEnvs(storage) ==
    CASE storage = "local" -> LocalReadEnvs
      [] storage = "supabase" -> SupabaseReadEnvs
      [] OTHER -> DriveEnvs

\* case 'google-drive' of retrieveData: list the files, keep those whose name starts
\* with the data type, fetch and decrypt each
retrieveData_googleDrive(dataType, env) ==
    LET listing == GoogleDriveStorage_listEncryptedFiles(gdToken, gdFolder, gdFiles, env)
        dataFiles == SelectSeq(listing.files, LAMBDA f : StartsWith(f.name, dataType))
        fetched == [i \in 1..Len(dataFiles) |->
                       GoogleDriveStorage_retrieveEncryptedData(gdToken, dataFiles[i],
                           config.encryptionKey, env)]
    IN IF ~listing.ok
       THEN [ok |-> FALSE, data |-> <<>>, folder |-> listing.folder]
       ELSE IF Len(dataFiles) = 0
       THEN [ok |-> TRUE, data |-> <<>>, folder |-> listing.folder]
       ELSE IF \E i \in 1..Len(dataFiles) : ~fetched[i].ok
       THEN [ok |-> FALSE, data |-> <<>>, folder |-> listing.folder]
       ELSE [ok |-> TRUE, data |-> [i \in 1..Len(dataFiles) |-> fetched[i].data],
             folder |-> listing.folder]

\* one backend's retrieve, as retrieveData calls it
RetrieveFrom(storage, dataType, env) ==
    CASE storage = "supabase" ->
           LET o == SupabaseStorage_retrieveEncryptedData(sbRows, config.userId, dataType,
                        config.encryptionKey, env)
           IN [ok |-> o.ok, data |-> o.data, folder |-> gdFolder]
      [] storage = "local" ->
           LET o == LocalStorage_retrieveEncryptedData(lsItems, lsIndex, config.userId,
                        dataType, config.encryptionKey, env)
           IN [ok |-> o.ok, data |-> o.data, folder |-> gdFolder]
      [] OTHER -> retrieveData_googleDrive(dataType, env)

BeginRetrieveData(dataType) ==
    /\ call.status # "running"
    /\ call' = [IdleCall EXCEPT !.op = "retrieveData", !.status = "running",
                                !.dataType = dataType]
    /\ UNCHANGED <<config, sessions, authVars, last, lsVars, sbVars, gdVars, nextId, now>>

\* retrieveData_collect going on to the next storage when a storage has no records
retrieveData_collect_skipEmpty(c, storage, o) ==
    IF o.ok /\ o.data # <<>>
    THEN [c EXCEPT !.status = "returned", !.ret = o.data,
                   !.attempts = Append(c.attempts, [storage |-> storage, ok |-> TRUE])]
    ELSE [c EXCEPT !.errors = IF o.ok THEN c.errors ELSE Append(c.errors, storage),
                   !.attempts = Append(c.attempts, [storage |-> storage, ok |-> o.ok]),
                   !.i = c.i + 1]

\* retrieveData_collect keeping the data and asking the remaining storages too
retrieveData_collect_askAll(c, storage, o) ==
    IF o.ok
    THEN [c EXCEPT !.ret = o.data,
                   !.status = IF c.i = Len(enabledStorages) THEN "returned" ELSE "running",
                   !.attempts = Append(c.attempts, [storage |-> storage, ok |-> TRUE]),
                   !.i = c.i + 1]
    ELSE [c EXCEPT !.errors = Append(c.errors, storage),
                   !.attempts = Append(c.attempts, [storage |-> storage, ok |-> FALSE]),
                   !.i = c.i + 1]

\* the try/catch around one backend: return its data, or errors.push(...); continue
retrieveData_collect(c, storage, o) ==
    IF o.ok
    THEN [c EXCEPT !.status = "returned", !.ret = o.data,
                   !.attempts = Append(c.attempts, [storage |-> storage, ok |-> TRUE])]
    ELSE [c EXCEPT !.errors = Append(c.errors, storage),
                   !.attempts = Append(c.attempts, [storage |-> storage, ok |-> FALSE]),
                   !.i = c.i + 1]

RetrieveDataStep ==
    /\ Running("retrieveData")
    /\ call.i <= Len(enabledStorages)
    /\ \E env \in ReadEnvs(enabledStorages[call.i]) :
         LET o == RetrieveFrom(enabledStorages[call.i], call.dataType, env)
         IN /\ call' = retrieveData_collect(call, enabledStorages[call.i], o)
            /\ gdFolder' = o.folder
    /\ UNCHANGED <<config, sessions, authVars, last, lsVars, sbVars, gdToken, gdFiles, nextId, now>>

\* retrieveData_exhausted returning an empty list
retrieveData_exhausted_empty(c) ==
    [c EXCEPT !.status = "returned", !.ret = <<>>]

\* after the loop: every storage threw
retrieveData_exhausted(c) ==
    [c EXCEPT !.status = "thrown", !.message = "All storage options failed"]

RetrieveDataFail ==
    /\ Running("retrieveData")
    /\ call.i > Len(enabledStorages)
    /\ call' = retrieveData_exhausted(call)
    /\ UNCHANGED <<config, sessions, authVars, last, lsVars, sbVars, gdVars, nextId, now>>

(* getStorageStats *)

StatsOf(storage, env) ==
    CASE storage = "local" ->
           LET o == LocalStorage_getStorageStats(lsItems, lsIndex, config.userId, env)
           IN [ok |-> o.ok, folder |-> gdFolder,
               entry |-> [error |-> FALSE, itemCount |-> o.itemCount,
                          estimatedSize |-> o.estimatedSize]]
      [] storage = "supabase" ->
           LET o == SupabaseStorage_listUserData(sbRows, config.userId, env)
           IN [ok |-> o.ok, folder |-> gdFolder,
               entry |-> [error |-> FALSE, itemCount |-> Len(o.data),
                          lastSync |-> IF o.data = <<>> THEN "Never" ELSE "updated_at"]]
      [] OTHER ->
           LET o == GoogleDriveStorage_listEncryptedFiles(gdToken, gdFolder, gdFiles, env)
           IN [ok |-> o.ok, folder |-> o.folder,
               entry |-> [error |-> FALSE, itemCount |-> Len(o.files),
                          lastSync |-> "Available"]]

BeginGetStorageStats ==
    /\ call.status # "running"
    /\ call' = [IdleCall EXCEPT !.op = "getStorageStats", !.status = "running"]
    /\ UNCHANGED <<config, sessions, authVars, last, lsVars, sbVars, gdVars, nextId, now>>

\* getStorageStats_collect without the try/catch: a failing storage ends the call
getStorageStats_collect_noCatch(c, storage, o) ==
    IF o.ok
    THEN [c EXCEPT !.stats = Put(c.stats, storage, o.entry),
                   !.attempts = Append(c.attempts, [storage |-> storage, ok |-> TRUE]),
                   !.i = c.i + 1]
    ELSE [c EXCEPT !.status = "thrown",
                   !.attempts = Append(c.attempts, [storage |-> storage, ok |-> FALSE])]

\* the try/catch around one backend: stats[storage] = its statistics, or { error }
getStorageStats_collect(c, storage, o) ==
    [c EXCEPT !.stats = Put(c.stats, storage, IF o.ok THEN o.entry ELSE [error |-> TRUE]),
              !.attempts = Append(c.attempts, [storage |-> storage, ok |-> o.ok]),
              !.i = c.i + 1]

GetStorageStatsStep ==
    /\ Running("getStorageStats")
    /\ call.i <= Len(enabledStorages)
    /\ \E env \in ReadEnvs(enabledStorages[call.i]) :
         LET o == StatsOf(enabledStorages[call.i], env)
         IN /\ call' = getStorageStats_collect(call, enabledStorages[call.i], o)
            /\ gdFolder' = o.folder
    /\ UNCHANGED <<config, sessions, authVars, last, lsVars, sbVars, gdToken, gdFiles, nextId, now>>

GetStorageStatsFinish ==
    /\ Running("getStorageStats")
    /\ call.i > Len(enabledStorages)
    /\ call' = [call EXCEPT !.status = "returned"]
    /\ UNCHANGED <<config, sessions, authVars, last, lsVars, sbVars, gdVars, nextId, now>>

(* syncData *)

\* the switch on the primary storage: only 'supabase' and 'local' have a case, any
\* other primary (and no primary at all) leaves primaryData = []
syncData_readPrimary(primaryStorage, dataType, env) ==
    CASE primaryStorage = "supabase" ->
           SupabaseStorage_retrieveEncryptedData(sbRows, config.userId, dataType,
               config.encryptionKey, env)
      [] primaryStorage = "local" ->
           LocalStorage_retrieveEncryptedData(lsItems, lsIndex, config.userId, dataType,
               config.encryptionKey, env)
      [] OTHER -> [ok |-> TRUE, data |-> <<>>]

\* enabledStorages[0], "undefined" for an empty list
primaryStorage == IF enabledStorages = <<>> THEN "undefined" ELSE enabledStorages[1]

\* identifiers a syncData of the data type can use up
SyncNeeds(dataType) ==
    Len(syncData_readPrimary(primaryStorage, dataType, "ok").data)
        * (IF enabledStorages = <<>> THEN 0 ELSE Len(enabledStorages) - 1)

BeginSyncData(dataType) ==
    /\ call.status # "running"
    /\ nextId + SyncNeeds(dataType) <= MaxIds + 1
    /\ (call.op = "syncData" /\ call.status = "returned" /\ call.dataType = dataType)
         => call.run < MaxRun
    /\ call' = IF call.op = "syncData" /\ call.status = "returned" /\ call.dataType = dataType
               THEN [IdleCall EXCEPT !.op = "syncData", !.status = "running",
                                     !.dataType = dataType, !.run = call.run + 1,
                                     !.base = call.base, !.issued = call.issued,
                                     !.clean = call.clean]
               ELSE [IdleCall EXCEPT !.op = "syncData", !.status = "running",
                                     !.dataType = dataType, !.run = 1,
                                     !.base = [b \in Backends |-> Held(b, dataType)]]
    /\ UNCHANGED <<config, sessions, authVars, last, lsVars, sbVars, gdVars, nextId, now>>

\* the read of the primary: its data and the start of the loop over slice(1), or
\* the catch of syncData
syncData_afterRead(c, o) ==
    IF o.ok
    THEN [c EXCEPT !.primaryData = o.data, !.i = 2, !.j = 1,
                   !.attempts = Append(c.attempts, [storage |-> primaryStorage, ok |-> TRUE])]
    ELSE [c EXCEPT !.status = "thrown", !.message = "Sync failed",
                   !.attempts = Append(c.attempts, [storage |-> primaryStorage, ok |-> FALSE])]

SyncDataRead ==
    /\ Running("syncData")
    /\ call.i = 1
    /\ \E env \in ReadEnvs(primaryStorage) :
         call' = syncData_afterRead(call,
                     syncData_readPrimary(primaryStorage, call.dataType, env))
    /\ UNCHANGED <<config, sessions, authVars, last, lsVars, sbVars, gdVars, nextId, now>>

\* the record of one store issued by syncData: the storage, the item, whether the
\* store returned (ok), and the identifier under which the backend holds the record
\* when the store is over (Undefined when it holds none)
WriteOf(c, storage, r) ==
    [storage |-> storage, item |-> c.primaryData[c.j], ok |-> r.ok,
     id |-> IF nextId \in HeldIds(storage, c.dataType, r.items, r.rows, r.profile, r.files)
            THEN nextId ELSE Undefined]

\* storeDataInSpecificStorage_collect going on with the next item when a store threw
storeDataInSpecificStorage_collect_swallow(c, storage, r, cleanly) ==
    LET issued == [c EXCEPT !.writes = Append(c.writes, WriteOf(c, storage, r)),
                            !.issued[storage] = c.issued[storage] + 1,
                            !.clean = c.clean /\ r.ok /\ cleanly]
    IN [issued EXCEPT !.j = IF c.j < Len(c.primaryData) THEN c.j + 1 ELSE 1,
                      !.i = IF c.j < Len(c.primaryData) THEN c.i ELSE c.i + 1]

\* storeDataInSpecificStorage_collect leaving the loop over the storages after the
\* first of them
storeDataInSpecificStorage_collect_firstStorage(c, storage, r, cleanly) ==
    LET issued == [c EXCEPT !.writes = Append(c.writes, WriteOf(c, storage, r)),
                            !.issued[storage] = c.issued[storage] + 1,
                            !.clean = c.clean /\ r.ok /\ cleanly]
    IN IF r.ok
       THEN [issued EXCEPT !.j = IF c.j < Len(c.primaryData) THEN c.j + 1 ELSE 1,
                           !.i = IF c.j < Len(c.primaryData) THEN c.i
                                 ELSE Len(enabledStorages) + 1]
       ELSE [issued EXCEPT !.status = "thrown", !.message = "Sync failed"]

\* storeDataInSpecificStorage, one item: the next item, the next storage after the
\* last item, or the catch of syncData when the store threw
storeDataInSpecificStorage_collect(c, storage, r, cleanly) ==
    LET issued == [c EXCEPT !.writes = Append(c.writes, WriteOf(c, storage, r)),
                            !.issued[storage] = c.issued[storage] + 1,
                            !.clean = c.clean /\ r.ok /\ cleanly]
    IN IF r.ok
       THEN [issued EXCEPT !.j = IF c.j < Len(c.primaryData) THEN c.j + 1 ELSE 1,
                           !.i = IF c.j < Len(c.primaryData) THEN c.i ELSE c.i + 1]
       ELSE [issued EXCEPT !.status = "thrown", !.message = "Sync failed"]

SyncDataStore ==
    /\ Running("syncData")
    /\ call.i >= 2
    /\ call.i <= Len(enabledStorages)
    /\ call.j <= Len(call.primaryData)
    /\ \E env \in StoreEnvs(enabledStorages[call.i]), t \in StoreTimes(enabledStorages[call.i]) :
         LET o == StoreOutcome(enabledStorages[call.i], call.primaryData[call.j],
                      call.dataType, env, t)
         IN /\ call' = storeDataInSpecificStorage_collect(call, enabledStorages[call.i], o,
                            StoredCleanly(enabledStorages[call.i], call.dataType, o))
            /\ StoreApply(o, t)
    /\ UNCHANGED <<config, sessions, authVars, last>>

SyncDataFinish ==
    /\ Running("syncData")
    /\ call.i >= 2
    /\ call.i > Len(enabledStorages) \/ call.primaryData = <<>>
    /\ call' = [call EXCEPT !.status = "returned"]
    /\ UNCHANGED <<config, sessions, authVars, last, lsVars, sbVars, gdVars, nextId, now>>

(* GoogleDriveStorage.authenticate, when the sign-in succeeds: the token is cached *)
authenticate ==
    /\ call.status # "running"
    /\ ~gdToken
    /\ gdToken' = TRUE
    /\ UNCHANGED <<config, sessions, authVars, last, lsVars, sbVars, gdFolder, gdFiles, nextId, now, call>>

----------------------------------------------------------------------------
(* The storage layer as the application drives it *)

\* null
Null == "null"

\* no direct call made yet
NoCall == [op |-> "none"]

\* the browser sessions (tabs) that share the origin's localStorage
Sessions == {"A", "B"}

\* a session that is in no Local call: op and ok are those of its last call
IdleSession ==
    [pc |-> "idle", op |-> "none", ok |-> TRUE, id |-> Undefined, dataType |-> <<>>,
     t |-> 0, read |-> <<>>]

Init ==
    /\ config \in [userId : {"u1"}, encryptionKey : Keys, enabledStorages : EnabledLists]
    /\ lsItems = {}
    /\ lsIndex = [u \in Users |-> <<>>]
    /\ sbRows = {}
    /\ sbProfile = [u \in Users |-> {}]
    /\ gdToken = FALSE
    /\ gdFolder = FALSE
    /\ gdFiles = {}
    /\ nextId = 1
    /\ now = 0
    /\ call = IdleCall
    /\ auth = [user |-> [null |-> TRUE], encryptionKey |-> Null, isAuthenticated |-> FALSE]
    /\ authStorage = EmptyMap
    /\ last = NoCall
    /\ sessions = [s \in Sessions |-> IdleSession]

Next ==
    \/ \E data \in DataValues, dataType \in DataTypes : BeginStoreData(data, dataType)
    \/ StoreDataStep
    \/ StoreDataFinish
    \/ \E dataType \in DataTypes : BeginRetrieveData(dataType)
    \/ RetrieveDataStep
    \/ RetrieveDataFail
    \/ \E dataType \in DataTypes : BeginSyncData(dataType)
    \/ SyncDataRead
    \/ SyncDataStore
    \/ SyncDataFinish
    \/ BeginGetStorageStats
    \/ GetStorageStatsStep
    \/ GetStorageStatsFinish
    \/ authenticate

Spec == Init /\ [][Next]_vars

\* storeData alone, with the steps of its awaits; the event loop runs every
\* continuation that is ready
NextStoreData ==
    \/ \E data \in DataValues, dataType \in DataTypes : BeginStoreData(data, dataType)
    \/ StoreDataIssue
    \/ StoreDataSettle
    \/ StoreDataReturn
    \/ authenticate

SpecStoreData ==
    /\ Init
    /\ [][NextStoreData]_vars
    /\ WF_vars(StoreDataIssue)
    /\ WF_vars(StoreDataSettle)
    /\ WF_vars(StoreDataReturn)

\* syncData on a configuration of two or more backends whose Relational backend
\* holds records of the user stored earlier (by another device, or in an earlier
\* visit): one or two rows of one data type
EarlierRow(id) ==
    [id |-> id, user_id |-> "u1", data_type |-> <<"s">>,
     encrypted_content |-> encryptData("rec", "k1"), storage_location |-> "supabase",
     updated_at |-> "default"]

EarlierRows == {{EarlierRow(101)}, {EarlierRow(101), EarlierRow(102)}}

InitSync ==
    /\ config \in [userId : {"u1"}, encryptionKey : Keys,
                    enabledStorages : {s \in EnabledLists : Len(s) >= 2}]
    /\ lsItems = {}
    /\ lsIndex = [u \in Users |-> <<>>]
    /\ sbRows \in EarlierRows
    /\ sbProfile = [u \in Users |-> {}]
    /\ gdToken \in BOOLEAN
    /\ gdFolder = FALSE
    /\ gdFiles = {}
    /\ nextId = 1
    /\ now = 0
    /\ call = IdleCall
    /\ auth = [user |-> [null |-> TRUE], encryptionKey |-> Null, isAuthenticated |-> FALSE]
    /\ authStorage = EmptyMap
    /\ last = NoCall
    /\ sessions = [s \in Sessions |-> IdleSession]

NextSync ==
    \/ \E dataType \in DataTypes : BeginSyncData(dataType)
    \/ SyncDataRead
    \/ SyncDataStore
    \/ SyncDataFinish

SpecSync == InitSync /\ [][NextSync]_vars

----------------------------------------------------------------------------
(* The Local backend called directly (as the storage setup page does), for  *)
(* any user, identifier and data type                                      *)

\* a direct call is made to a backend the configuration enables
Enabled(storage) == storage \in Range(enabledStorages)

\* the values handed to an update
UpdateValues == {"rec"}

\* the record of a direct call: its arguments, what the outside answered (env),
\* whether it returned (ok) and what, and the backends as they were when it began
DirectCall(op, userId, id, dataType, data, env, ok) ==
    [op |-> op, userId |-> userId, id |-> id, dataType |-> dataType, data |-> data,
     env |-> env, ok |-> ok, items |-> lsItems, index |-> lsIndex, rows |-> sbRows,
     profile |-> sbProfile, files |-> gdFiles]

LocalStore(userId, data, dataType) ==
    /\ Enabled("local")
    /\ nextId <= MaxIds
    /\ \E env \in LocalStoreEnvs, t \in Times :
         LET o == LocalStorage_storeEncryptedData(lsItems, lsIndex, userId, data, dataType,
                      config.encryptionKey, nextId, t, env)
         IN /\ lsItems' = o.items
            /\ lsIndex' = o.index
            /\ now' = t
            /\ last' = DirectCall("LocalStorage.storeEncryptedData", userId, nextId,
                           dataType, data, env, o.ok)
    /\ nextId' = nextId + 1
    /\ UNCHANGED <<config, sessions, authVars, sbVars, gdVars, call>>

LocalUpdate(userId, id, dataType, data) ==
    /\ Enabled("local")
    /\ \E env \in {"ok", "quota"}, t \in Times :
         LET o == LocalStorage_updateEncryptedData(lsItems, userId, id, dataType, data,
                      config.encryptionKey, t, env)
         IN /\ lsItems' = o.items
            /\ now' = t
            /\ last' = DirectCall("LocalStorage.updateEncryptedData", userId, id,
                           dataType, data, env, o.ok)
    /\ UNCHANGED <<config, sessions, authVars, lsIndex, sbVars, gdVars, nextId, call>>

LocalDelete(userId, id, dataType) ==
    /\ Enabled("local")
    /\ LET o == LocalStorage_deleteEncryptedData(lsItems, lsIndex, userId, id, dataType)
       IN /\ lsItems' = o.items
          /\ lsIndex' = o.index
          /\ last' = DirectCall("LocalStorage.deleteEncryptedData", userId, id, dataType,
                         "none", "ok", TRUE)
    /\ UNCHANGED <<config, sessions, authVars, sbVars, gdVars, nextId, now, call>>

SupabaseStore(userId, data, dataType) ==
    /\ Enabled("supabase")
    /\ nextId <= MaxIds
    /\ \E env \in SupabaseStoreEnvs :
         LET o == SupabaseStorage_storeEncryptedData(sbRows, sbProfile, userId, data,
                      dataType, config.encryptionKey, nextId, env)
         IN /\ sbRows' = o.rows
            /\ sbProfile' = o.profile
            /\ last' = DirectCall("SupabaseStorage.storeEncryptedData", userId, nextId,
                           dataType, data, env, o.ok)
    /\ nextId' = nextId + 1
    /\ UNCHANGED <<config, sessions, authVars, lsVars, gdVars, now, call>>

SupabaseUpdate(id, data) ==
    /\ Enabled("supabase")
    /\ \E env \in SupabaseReadEnvs, t \in Times :
         LET o == SupabaseStorage_updateEncryptedData(sbRows, id, data,
                      config.encryptionKey, t, env)
         IN /\ sbRows' = o.rows
            /\ now' = t
            /\ last' = DirectCall("SupabaseStorage.updateEncryptedData", "none", id,
                           <<>>, data, env, o.ok)
    /\ UNCHANGED <<config, sessions, authVars, lsVars, sbProfile, gdVars, nextId, call>>

SupabaseDelete(id) ==
    /\ Enabled("supabase")
    /\ \E env \in SupabaseReadEnvs :
         LET o == SupabaseStorage_deleteEncryptedData(sbRows, id, env)
         IN /\ sbRows' = o.rows
            /\ last' = DirectCall("SupabaseStorage.deleteEncryptedData", "none", id,
                           <<>>, "none", env, o.ok)
    /\ UNCHANGED <<config, sessions, authVars, lsVars, sbProfile, gdVars, nextId, now, call>>

DriveStore(data, dataType) ==
    /\ Enabled("google-drive")
    /\ nextId <= MaxIds
    /\ \E env \in DriveEnvs, t \in Times :
         LET o == GoogleDriveStorage_storeEncryptedData(gdToken, gdFolder, gdFiles, data,
                      dataType, config.encryptionKey, nextId, t, env)
         IN /\ gdFolder' = o.folder
            /\ gdFiles' = o.files
            /\ now' = t
            /\ last' = DirectCall("GoogleDriveStorage.storeEncryptedData", "none", o.id,
                           dataType, data, env, o.ok)
    /\ nextId' = nextId + 1
    /\ UNCHANGED <<config, sessions, authVars, lsVars, sbVars, gdToken, call>>

InitLocal == Init /\ config.enabledStorages = <<"local">>

NextLocal ==
    \/ \E userId \in Users, data \in DataValues, dataType \in DataTypes :
         LocalStore(userId, data, dataType)
    \/ \E userId \in Users, id \in 1..MaxIds, dataType \in DataTypes :
         LocalDelete(userId, id, dataType)

SpecLocal == InitLocal /\ [][NextLocal]_vars

DriveAuthenticate ==
    /\ Enabled("google-drive")
    /\ authenticate

\* the backend classes called directly for the configured user
NextBackends ==
    \/ \E data \in DataValues, dataType \in DataTypes :
         LocalStore(config.userId, data, dataType)
    \/ \E id \in 1..MaxIds, dataType \in DataTypes, data \in UpdateValues :
         LocalUpdate(config.userId, id, dataType, data)
    \/ \E id \in 1..MaxIds, dataType \in DataTypes :
         LocalDelete(config.userId, id, dataType)
    \/ \E data \in DataValues, dataType \in DataTypes :
         SupabaseStore(config.userId, data, dataType)
    \/ \E id \in 1..MaxIds, data \in UpdateValues : SupabaseUpdate(id, data)
    \/ \E id \in 1..MaxIds : SupabaseDelete(id)
    \/ \E data \in DataValues, dataType \in DataTypes : DriveStore(data, dataType)
    \/ DriveAuthenticate

\* the three classes share no state, so each behaviour exercises one of them, the
\* one enabled
InitBackends == Init /\ Len(config.enabledStorages) = 1

SpecBackends == InitBackends /\ [][NextBackends]_vars

----------------------------------------------------------------------------
(* The Local backend called from two browser sessions of the same user.  Each  *)
(* tab runs its call to the end, but the tabs run in parallel and share one    *)
(* localStorage: between a tab's getItem of the index and its setItem, the     *)
(* other tab can read and write.  A step is what a call does between two       *)
(* accesses of the index entry.                                                *)

\* storeEncryptedData up to the call of updateIndex: the write of the record entry,
\* with clearOldData and the retry when the entry is rejected as full
LocalStorage_writeRecord(items, index, userId, data, dataType, encryptionKey, id, t, env) ==
    LET storageItem == [id |-> id, userId |-> userId, dataType |-> dataType,
                        encryptedContent |-> encryptData(data, encryptionKey),
                        storageLocation |-> "local", createdAt |-> t, updatedAt |-> t]
        cleared == clearOldData(items, index, userId)
    IN CASE env.w1 = "ok" ->
              [thrown |-> FALSE, items |-> LsSetItem(items, storageItem), index |-> index]
         [] env.w1 = "quota" /\ env.w2 = "ok" ->
              [thrown |-> FALSE, items |-> LsSetItem(cleared.items, storageItem),
               index |-> cleared.index]
         [] env.w1 = "quota" /\ env.w2 # "ok" ->
              [thrown |-> TRUE, items |-> cleared.items, index |-> cleared.index]
         [] OTHER ->
              [thrown |-> TRUE, items |-> items, index |-> index]

\* the records the sessions store
SessionValues == {"rec"}

\* updateIndex writing the index as it is now with the entry pushed, not the array
\* it read
updateIndex_write_reread(index, userId, read, id, dataType, t) ==
    [index EXCEPT ![userId] =
        Append(index[userId], [id |-> id, dataType |-> dataType, createdAt |-> t])]

\* updateIndex after its getIndex: push the entry on the array read, setItem
updateIndex_write(index, userId, read, id, dataType, t) ==
    [index EXCEPT ![userId] =
        Append(read, [id |-> id, dataType |-> dataType, createdAt |-> t])]

\* removeFromIndex after its getIndex: filter the array read, setItem
removeFromIndex_write(index, userId, read, id) ==
    [index EXCEPT ![userId] = SelectSeq(read, LAMBDA e : e.id # id)]

\* a session calls storeEncryptedData: the record entry is written
SessionStore(s, data, dataType) ==
    /\ sessions[s].pc = "idle"
    /\ nextId <= MaxIds
    /\ \E env \in {e \in LocalStoreEnvs : e.wi = "ok"}, t \in Times :
         LET o == LocalStorage_writeRecord(lsItems, lsIndex, config.userId, data, dataType,
                      config.encryptionKey, nextId, t, env)
         IN /\ lsItems' = o.items
            /\ lsIndex' = o.index
            /\ now' = t
            /\ sessions' = [sessions EXCEPT ![s] =
                   [pc |-> IF o.thrown THEN "idle" ELSE "getIndex",
                    op |-> "store", ok |-> ~o.thrown, id |-> nextId,
                    dataType |-> dataType, t |-> IF o.thrown THEN 0 ELSE t,
                    read |-> <<>>]]
    /\ nextId' = nextId + 1
    /\ UNCHANGED <<config, authVars, last, sbVars, gdVars, call>>

\* a session calls deleteEncryptedData for a record it finds stored: the record
\* entry is removed
SessionDelete(s, id, dataType) ==
    /\ sessions[s].pc = "idle"
    /\ LsEntry(lsItems, config.userId, dataType, id) # {}
    /\ lsItems' = LsRemoveItem(lsItems, config.userId, dataType, id)
    /\ sessions' = [sessions EXCEPT ![s] =
           [pc |-> "getIndex", op |-> "delete", ok |-> TRUE, id |-> id,
            dataType |-> dataType, t |-> 0, read |-> <<>>]]
    /\ UNCHANGED <<config, authVars, last, lsIndex, sbVars, gdVars, nextId, now, call>>

\* getIndex of updateIndex / removeFromIndex: the session reads the index entry
SessionGetIndex(s) ==
    /\ sessions[s].pc = "getIndex"
    /\ sessions' = [sessions EXCEPT ![s].pc = "setItem",
                                    ![s].read = getIndex(lsIndex, config.userId)]
    /\ UNCHANGED <<config, authVars, last, lsVars, sbVars, gdVars, nextId, now, call>>

\* setItem of updateIndex / removeFromIndex: the session writes the index entry
\* (env: the write is accepted, or rejected as full) and its call ends
SessionSetIndex(s) ==
    /\ sessions[s].pc = "setItem"
    /\ \E env \in {"ok", "quota"} :
         /\ lsIndex' =
               IF env # "ok" THEN lsIndex
               ELSE IF sessions[s].op = "store"
               THEN updateIndex_write(lsIndex, config.userId, sessions[s].read,
                        sessions[s].id, sessions[s].dataType, sessions[s].t)
               ELSE removeFromIndex_write(lsIndex, config.userId, sessions[s].read,
                        sessions[s].id)
         /\ sessions' = [sessions EXCEPT ![s].pc = "idle", ![s].ok = (env = "ok"),
                                         ![s].t = 0, ![s].read = <<>>]
    /\ UNCHANGED <<config, authVars, last, lsItems, sbVars, gdVars, nextId, now, call>>

NextSessions ==
    \/ \E s \in Sessions, data \in SessionValues, dataType \in DataTypes :
         SessionStore(s, data, dataType)
    \/ \E s \in Sessions, id \in 1..MaxIds, dataType \in DataTypes :
         SessionDelete(s, id, dataType)
    \/ \E s \in Sessions : SessionGetIndex(s)
    \/ \E s \in Sessions : SessionSetIndex(s)

SpecSessions == InitLocal /\ [][NextSessions]_vars

----------------------------------------------------------------------------
(* The auth store: useAuthStore, persisted under 'auth-storage' *)

\* user: null
NullUser == [null |-> TRUE]

\* EncryptionService.hashEncryptionKey: SHA-256 of the key
hashEncryptionKey(key) == <<"sha256", key>>

\* the users setUser is called with
AuthUsers ==
    [id : Users, storagePreferences : EnabledLists,
     encryptionKeyHash : {hashEncryptionKey(k) : k \in Keys}]

\* partialize with the encryption key among the persisted fields
partialize_withKey(state) ==
    [user |-> state.user, isAuthenticated |-> state.isAuthenticated,
     encryptionKey |-> state.encryptionKey]

\* partialize: the part of the state that persist writes
partialize(state) ==
    [user |-> state.user, isAuthenticated |-> state.isAuthenticated]

\* the record of a call of the store: the user and the key as they were before
AuthCall(op) == [op |-> op, user |-> auth.user, encryptionKey |-> auth.encryptionKey]

backendVars == <<config, lsVars, sbVars, gdVars, nextId, now, call, sessions>>

\* each action is one set(...): the state is merged and persist writes the snapshot
setUser(user) ==
    /\ auth' = [auth EXCEPT !.user = user, !.isAuthenticated = (user # NullUser)]
    /\ authStorage' = partialize(auth')
    /\ last' = AuthCall("setUser")
    /\ UNCHANGED backendVars

setEncryptionKey(key) ==
    /\ auth' = [auth EXCEPT !.encryptionKey = key]
    /\ authStorage' = partialize(auth')
    /\ last' = AuthCall("setEncryptionKey")
    /\ UNCHANGED backendVars

logout ==
    /\ auth' = [user |-> NullUser, encryptionKey |-> Null, isAuthenticated |-> FALSE]
    /\ authStorage' = partialize(auth')
    /\ last' = AuthCall("logout")
    /\ UNCHANGED backendVars

\* updateStoragePreferences: nothing is set when no user is signed in
updateStoragePreferences(preferences) ==
    /\ auth.user # NullUser
    /\ auth' = [auth EXCEPT !.user = [auth.user EXCEPT !.storagePreferences = preferences]]
    /\ authStorage' = partialize(auth')
    /\ last' = AuthCall("updateStoragePreferences")
    /\ UNCHANGED backendVars

NextAuth ==
    \/ \E user \in AuthUsers \cup {NullUser} : setUser(user)
    \/ \E key \in Keys \cup {Null} : setEncryptionKey(key)
    \/ logout
    \/ \E preferences \in EnabledLists : updateStoragePreferences(preferences)

InitAuth == Init /\ config.enabledStorages = <<>>

SpecAuth == InitAuth /\ [][NextAuth]_vars

(* The auth store over the life of the application: signup, the setup page, logout
   and page reload *)

\* handleSignup, when the account and the profile were created: setUser with the
\* new user, then setEncryptionKey with the generated key, in the same handler
handleSignup(user, key) ==
    /\ auth' = [user |-> user, encryptionKey |-> key, isAuthenticated |-> (user # NullUser)]
    /\ authStorage' = partialize(auth')
    /\ last' = AuthCall("handleSignup")
    /\ UNCHANGED backendVars

\* page load: the store is created with its initial state and persist merges the
\* snapshot stored under 'auth-storage' into it
rehydrate ==
    /\ auth' = IF authStorage = EmptyMap
               THEN [user |-> NullUser, encryptionKey |-> Null, isAuthenticated |-> FALSE]
               ELSE [user |-> authStorage.user, encryptionKey |-> Null,
                     isAuthenticated |-> authStorage.isAuthenticated]
    /\ last' = AuthCall("rehydrate")
    /\ UNCHANGED <<authStorage, backendVars>>

NextSession ==
    \/ \E user \in AuthUsers, key \in Keys : handleSignup(user, key)
    \/ \E preferences \in EnabledLists : updateStoragePreferences(preferences)
    \/ logout
    \/ rehydrate

SpecSession == InitAuth /\ [][NextSession]_vars

----------------------------------------------------------------------------
(* The cipher service called directly *)

\* values JSON.stringify accepts: objects with a number, NaN, Infinity, null,
\* undefined, Date or string field, an empty object, a string
CipherValues ==
    {"rec", "recNaN", "recInfinity", "recNull", "recUndefined", "recEmpty", "recDate",
     "recIsoString", "text"}

CipherKeys == {"k1", "k2", "k3", "k4"}

Encrypt(data, encryptionKey) ==
    /\ last' = [op |-> "encryptData", data |-> data, key |-> encryptionKey,
                encrypted |-> encryptData(data, encryptionKey)]
    /\ UNCHANGED <<backendVars, authVars>>

\* decryptData of the ciphertext last made, with any key
Decrypt(encryptionKey) ==
    /\ last.op \in {"encryptData", "decryptData"}
    /\ last' = [op |-> "decryptData", data |-> last.data, key |-> last.key,
                encrypted |-> last.encrypted, usedKey |-> encryptionKey,
                ok |-> decryptOk(last.encrypted, encryptionKey),
                out |-> IF decryptOk(last.encrypted, encryptionKey)
                        THEN decryptData(last.encrypted, encryptionKey)
                        ELSE "Failed to decrypt data"]
    /\ UNCHANGED <<backendVars, authVars>>

NextCipher ==
    \/ \E data \in CipherValues, encryptionKey \in CipherKeys : Encrypt(data, encryptionKey)
    \/ \E encryptionKey \in CipherKeys : Decrypt(encryptionKey)

SpecCipher == InitAuth /\ [][NextCipher]_vars

----------------------------------------------------------------------------
(* Properties *)

Done(op) == call.op = op /\ call.status # "running"

Returned(op) == call.op = op /\ call.status = "returned"

Thrown(op) == call.op = op /\ call.status = "thrown"

\* the attempts of the call that threw / that returned
FailedAttempts == {k \in 1..Len(call.attempts) : ~call.attempts[k].ok}

\* every enabled storage was attempted once, in the configured order
AttemptedAll ==
    /\ Len(call.attempts) = Len(enabledStorages)
    /\ \A k \in 1..Len(call.attempts) : call.attempts[k].storage = enabledStorages[k]

\* what the retrieve of a storage shows of a data type in the present state
RecordsOf(storage, dataType) == RetrieveFrom(storage, dataType, "ok").data

\* the answers a storage's retrieve can give in the present state when it succeeds
AnswersOf(storage, dataType) ==
    {RetrieveFrom(storage, dataType, env).data :
        env \in {e \in ReadEnvs(storage) : RetrieveFrom(storage, dataType, e).ok}}

\* the statistics a storage can report in the present state when its listing succeeds
StatsAnswersOf(storage) ==
    {StatsOf(storage, env).entry : env \in {e \in ReadEnvs(storage) : StatsOf(storage, e).ok}}

\* C1: storeData with a non-empty list of enabled storages throws exactly when the
\* store attempt failed on every enabled storage; when at least one attempt
\* succeeded it returns, whichever attempts failed and wherever they are in the list
C1_StoreThrowsOnlyWhenAllFail ==
    (Done("storeData") /\ enabledStorages # <<>>) =>
        /\ AttemptedAll
        /\ (call.status = "thrown") <=> (FailedAttempts = 1..Len(enabledStorages))

\* a storeData that returned although its first and its last of three attempts failed
C1_Witness ==
    /\ Returned("storeData")
    /\ Len(enabledStorages) = 3
    /\ FailedAttempts = {1, 3}

C3_StoreAggregatesEveryFailure ==
    Done("storeData") =>
        /\ (AttemptedAll /\ FailedAttempts = 1..Len(enabledStorages)) =>
              /\ call.status = "thrown"
              /\ call.message = "All storage options failed"
              /\ call.errors = enabledStorages
        /\ call.status = "thrown" => FailedAttempts = 1..Len(enabledStorages)

C3_Witness ==
    /\ Thrown("storeData")
    /\ Len(enabledStorages) = 3
    /\ Len(call.errors) = 3

\* C4: retrieveData returns exactly the records of the first storage, in configured
\* order, whose retrieve succeeds; a storage that succeeds with no records ends the
\* search with the empty list; the result is the view of that one storage
C4_RetrieveReturnsFirstSuccess ==
    Returned("retrieveData") =>
        LET n == Len(call.attempts)
        IN /\ n \in 1..Len(enabledStorages)
           /\ \A k \in 1..n : call.attempts[k].storage = enabledStorages[k]
           /\ FailedAttempts = 1..(n - 1)
           /\ call.ret \in AnswersOf(enabledStorages[n], call.dataType)

\* the second storage answered with no records although the third holds some
C4_Witness ==
    /\ Returned("retrieveData")
    /\ Len(enabledStorages) = 3
    /\ Len(call.attempts) = 2
    /\ call.ret = <<>>
    /\ RecordsOf(enabledStorages[3], call.dataType) # <<>>

\* C5: retrieveData calls the storages one after another in configured order: a
\* storage is called only after every storage before it has failed, and after a
\* success no further storage is called
C5_RetrieveIsSequential ==
    call.op = "retrieveData" =>
        \A k \in 1..Len(call.attempts) :
            /\ call.attempts[k].storage = enabledStorages[k]
            /\ k < Len(call.attempts) => ~call.attempts[k].ok
            /\ call.attempts[k].ok => call.status = "returned"

\* order [A, B, C]: A failed, B succeeded, C was not called
C5_Witness ==
    /\ Returned("retrieveData")
    /\ Len(enabledStorages) = 3
    /\ Len(call.attempts) = 2
    /\ FailedAttempts = {1}

\* C6: when the retrieve of every enabled storage throws, retrieveData fails with an
\* error that lists one entry per storage attempted, in attempt order, and returns
\* no value
C6_RetrieveFailsWhenAllFail ==
    Done("retrieveData") =>
        /\ (AttemptedAll /\ FailedAttempts = 1..Len(enabledStorages)) <=> call.status = "thrown"
        /\ call.status = "thrown" =>
              /\ call.errors = enabledStorages
              /\ call.ret = <<>>

C6_Witness ==
    /\ Thrown("retrieveData")
    /\ Len(enabledStorages) = 3
    /\ Len(call.errors) = 3

\* the stores a syncData call issued to a storage, in order
WritesTo(storage) ==
    LET ws == SelectSeq(call.writes, LAMBDA w : w.storage = storage)
    IN [k \in 1..Len(ws) |-> ws[k].item]

\* the number of elements of a sequence that equal v
Occurrences(seq, v) == Cardinality({k \in 1..Len(seq) : seq[k] = v})

\* C7: syncData takes the first configured storage as source of truth whichever of
\* the three it is, reads all its records of the data type and stores each exactly
\* once in every other enabled storage, which afterwards holds at least those records
C7_SyncCopiesPrimary ==
    (Returned("syncData") /\ enabledStorages # <<>>) =>
        /\ call.primaryData = RecordsOf(primaryStorage, call.dataType)
        /\ \A k \in 2..Len(enabledStorages) :
              /\ WritesTo(enabledStorages[k]) = call.primaryData
              /\ \A v \in Range(call.primaryData) :
                    Occurrences(RecordsOf(enabledStorages[k], call.dataType), v)
                        >= Occurrences(call.primaryData, v)

C9_StatsEntryPerStorage ==
    /\ call.op = "getStorageStats" => call.status # "thrown"
    /\ Done("getStorageStats") =>
          /\ AttemptedAll
          /\ DOMAIN call.stats = Range(enabledStorages)
          /\ \A k \in 1..Len(enabledStorages) :
                LET storage == enabledStorages[k]
                IN IF call.attempts[k].ok
                   THEN call.stats[storage] \in StatsAnswersOf(storage)
                   ELSE call.stats[storage] = [error |-> TRUE]

\* the first storage failed, the two after it were asked and answered
C9_Witness ==
    /\ Returned("getStorageStats")
    /\ Len(enabledStorages) = 3
    /\ FailedAttempts = {1}
    /\ ~call.stats[enabledStorages[3]].error

\* C10: after any sequence of Local store and delete calls, for every user the
\* number of index entries equals the number of stored records, every index entry
\* refers to an existing record and every record has an index entry
C10_LocalIndexConsistent ==
    \A u \in Users :
        LET idx == getIndex(lsIndex, u)
            records == {it \in lsItems : it.userId = u}
        IN /\ Len(idx) = Cardinality(records)
           /\ \A k \in 1..Len(idx) : LsEntry(lsItems, u, idx[k].dataType, idx[k].id) # {}
           /\ \A it \in records :
                 \E k \in 1..Len(idx) : idx[k].id = it.id /\ idx[k].dataType = it.dataType

\* the identifiers that the storeData call returned
ResultIds == {call.results[b] : b \in DOMAIN call.results}

\* the backends hold no record but those of the identifiers the storeData call
\* returned: they were empty when it began
OnlyThisStore ==
    \A b \in Backends, t \in DataTypes :
        HeldIds(b, t, lsItems, sbRows, sbProfile, gdFiles) \subseteq ResultIds

\* C11: after a storeData of one record that succeeded on every enabled backend,
\* the backends having been empty before, the retrieve of every enabled backend
\* gives exactly that one record, so retrieveData gives the same under every
\* non-empty sub-list and ordering of the enabled backends
C11_SameRecordsFromEveryBackend ==
    (Returned("storeData") /\ enabledStorages # <<>> /\ AttemptedAll
        /\ FailedAttempts = {} /\ OnlyThisStore) =>
        \A b \in Range(enabledStorages) :
            RecordsOf(b, call.dataType) = <<JsonParse(JsonStringify(call.data))>>

\* C12: retrieveData and syncData on an empty list of enabled backends do not
\* complete successfully; they fail with an error other than the one raised when
\* backends were attempted and failed
C12_EmptyListIsDistinctError ==
    (enabledStorages = <<>> /\ (Done("retrieveData") \/ Done("syncData"))) =>
        /\ call.status = "thrown"
        /\ call.message \notin {"All storage options failed", "Sync failed"}

\* every payload a backend holds
Payloads ==
    {it.encryptedContent : it \in lsItems}
        \cup {r.encrypted_content : r \in sbRows}
        \cup UNION {{e.encrypted_content : e \in sbProfile[u]} : u \in Users}
        \cup {f.content : f \in gdFiles}

\* the values the application hands to the layer, and what parsing gives back
StoredValues == DataValues \cup {JsonParse(JsonStringify(v)) : v \in DataValues}

\* C13: every payload held by a backend (local record, relational row, profile
\* document, cloud file), whether written by store, update or the profile fallback,
\* is the output of encryptData under the configured key: none is readable without
\* the key
C13_PayloadsAreCiphertext ==
    \A p \in Payloads :
        \E v \in StoredValues : p = encryptData(v, config.encryptionKey)

\* a Local update replaced the payload of a record by the ciphertext of the new value
C13_Witness ==
    /\ last.op = "LocalStorage.updateEncryptedData"
    /\ last.ok
    /\ \E it \in lsItems, old \in last.items :
          /\ it.id = last.id /\ old.id = last.id
          /\ it.encryptedContent = encryptData(last.data, config.encryptionKey)
          /\ it.encryptedContent # old.encryptedContent

\* C14: after any sequence of setUser, setEncryptionKey, updateStoragePreferences
\* and logout the persisted snapshot holds the user and isAuthenticated only, no
\* encryption key; after logout the encryption key in memory is null, the user is
\* null and isAuthenticated is false
C14_KeyNeverPersisted ==
    /\ DOMAIN authStorage \subseteq {"user", "isAuthenticated"}
    /\ authStorage # EmptyMap =>
          DOMAIN authStorage.user \subseteq {"null", "id", "storagePreferences",
                                             "encryptionKeyHash"}
    /\ last.op = "logout" =>
          auth = [user |-> NullUser, encryptionKey |-> Null, isAuthenticated |-> FALSE]

\* a logout of a signed-in user whose key was in memory
C14_Witness ==
    /\ last.op = "logout"
    /\ last.encryptionKey # Null
    /\ last.user # NullUser
    /\ authStorage = [user |-> NullUser, isAuthenticated |-> FALSE]

\* the Local record entries of a call's key, and the relational rows of its id, as
\* they were when the call began
EntryBefore == LsEntry(last.items, last.userId, last.dataType, last.id)

RowsBefore == {r \in last.rows : r.id = last.id}

\* C15: update of an id that the backend does not hold fails and leaves the records
\* unchanged, for the Local and for the Relational backend alike; update of an
\* existing id replaces only that record's payload and update timestamp
C15_UpdateOfMissingFails ==
    /\ last.op = "LocalStorage.updateEncryptedData" =>
          IF EntryBefore = {}
          THEN ~last.ok /\ lsItems = last.items /\ lsIndex = last.index
          ELSE last.ok =>
                 \E t \in 0..MaxTime :
                    lsItems = {IF x \in EntryBefore
                               THEN [x EXCEPT !.encryptedContent =
                                                 encryptData(last.data, config.encryptionKey),
                                              !.updatedAt = t]
                               ELSE x : x \in last.items}
    /\ last.op = "SupabaseStorage.updateEncryptedData" =>
          IF RowsBefore = {}
          THEN ~last.ok /\ sbRows = last.rows
          ELSE last.ok =>
                 \E t \in 0..MaxTime :
                    sbRows = {IF x \in RowsBefore
                              THEN [x EXCEPT !.encrypted_content =
                                                encryptData(last.data, config.encryptionKey),
                                             !.updated_at = t]
                              ELSE x : x \in last.rows}

\* C16: delete of an id that the Local backend or the Relational backend does not
\* hold signals an error instead of completing silently, and leaves the records and
\* the Local index unchanged
C16_DeleteOfMissingFails ==
    /\ (last.op = "LocalStorage.deleteEncryptedData" /\ EntryBefore = {}) =>
          ~last.ok /\ lsItems = last.items /\ lsIndex = last.index
    /\ (last.op = "SupabaseStorage.deleteEncryptedData" /\ RowsBefore = {}) =>
          ~last.ok /\ sbRows = last.rows

\* what the Relational retrieve gives for the owner and data type of the last call,
\* on the given rows
RetrievedFrom(rows) ==
    SupabaseStorage_retrieveEncryptedData(rows, last.userId, last.dataType,
        config.encryptionKey, "ok").data

\* C17: a record that the Relational store put away through its fallback (it
\* returned although no row of the dedicated table holds the id) is returned by a
\* later Relational retrieve for the same owner and data type
C17_FallbackIsRetrievable ==
    (last.op = "SupabaseStorage.storeEncryptedData" /\ last.ok
        /\ ~ \E r \in sbRows : r.id = last.id) =>
        /\ Len(RetrievedFrom(sbRows)) = Len(RetrievedFrom(last.rows)) + 1
        /\ \E k \in 1..Len(RetrievedFrom(sbRows)) :
              RetrievedFrom(sbRows)[k] = JsonParse(JsonStringify(last.data))

LastIsLocalStore == last.op = "LocalStorage.storeEncryptedData"

\* C19: a Local store is atomic over the record entry and the index entry: when
\* storeEncryptedData fails at any step, the record entries and the index are as
\* they were before the call
C19_FailedStoreLeavesNoTrace ==
    (LastIsLocalStore /\ ~last.ok) =>
        /\ lsItems = last.items
        /\ lsIndex = last.index

\* the index entries of the storing user that the call removed
Evicted ==
    {e \in Range(last.index[last.userId]) : e \notin Range(lsIndex[last.userId])}

\* C20: when the record write of a Local store is rejected as full, the store
\* evicts, of the user's indexed records, the ceil(10%) with the earliest creation
\* time, each together with its index entry, and nothing of another user; it
\* retries the write once and fails when the retry is rejected too; every indexed
\* record that remains is at least as new as every evicted one
C20_QuotaEvictsOldestTenth ==
    (LastIsLocalStore /\ last.env.w1 = "quota") =>
        LET u == last.userId
            n == Len(last.index[u])
        IN /\ Cardinality(Evicted) = (n + 9) \div 10
           /\ \A e \in Evicted : LsEntry(lsItems, u, e.dataType, e.id) = {}
           /\ \A e \in Evicted, k \in Range(lsIndex[u]) : e.createdAt <= k.createdAt
           /\ \A it \in last.items :
                 (\A e \in Evicted : it \notin LsEntry(last.items, u, e.dataType, e.id))
                     => it \in lsItems
           /\ \A v \in Users \ {u} : lsIndex[v] = last.index[v]
           /\ last.ok <=> (last.env.w2 = "ok" /\ last.env.wi = "ok")
           /\ (LsEntry(lsItems, u, last.dataType, last.id) # {}) <=> last.env.w2 = "ok"

\* a store that found the device full with two indexed records of different age,
\* evicted the older one and succeeded on the retry
C20_Witness ==
    /\ LastIsLocalStore
    /\ last.env.w1 = "quota"
    /\ last.ok
    /\ Len(last.index[last.userId]) = 2
    /\ last.index[last.userId][1].createdAt # last.index[last.userId][2].createdAt
    /\ Cardinality(Evicted) = 1
    /\ Len(lsIndex[last.userId]) = 2

\* a decryptData with the key the ciphertext was made with
RoundTrip == last.op = "decryptData" /\ last.usedKey = last.key

C21_EveryBackendAttemptedOnce ==
    call.op = "storeData" =>
        /\ Len(call.attempts) <= Len(enabledStorages)
        /\ \A k \in 1..Len(call.attempts) : call.attempts[k].storage = enabledStorages[k]
        /\ call.status = "running" => Len(call.attempts) = call.i - 1
        /\ call.status # "running" => Len(call.attempts) = Len(enabledStorages)

\* the first two of three attempts failed and the third was made and succeeded
C21_Witness ==
    /\ Returned("storeData")
    /\ Len(enabledStorages) = 3
    /\ Len(call.attempts) = 3
    /\ FailedAttempts = {1, 2}

\* the store issued to the k-th enabled backend is awaited and never settles, and
\* there are backends after it
HungAt(k) ==
    /\ Running("storeData")
    /\ k < Len(enabledStorages)
    /\ call.i = k
    /\ call.pending # NoPending
    /\ call.pending.hung

\* the store on a backend after the k-th has been issued
StartedAfter(k) ==
    /\ call.op = "storeData"
    /\ \/ call.i > k + 1
       \/ call.i = k + 1 /\ call.pending # NoPending

\* C22: within one storeData call the stores are issued concurrently: when the
\* store on an earlier backend is slow or hung, the store on the next backend is
\* issued all the same
C22_LaterStoreStartsWhileEarlierPending ==
    \A k \in 1..2 : HungAt(k) ~> StartedAfter(k)

\* a step in which the store that storeData awaits settles
StoreSettles ==
    /\ Running("storeData")
    /\ call.pending # NoPending
    /\ call'.op = "storeData"
    /\ call'.pending = NoPending

\* C23: a store on the Cloud File backend without an access token fails with the
\* authentication error, and a store on either remote backend that fails with its
\* authentication error has written nothing to any backend and used no
\* identifier; storeData records it as the failure of that backend alone and goes
\* on with the next backend
C23_AuthFailureWritesNothing ==
    [][StoreSettles =>
         LET storage == call.pending.storage
         IN /\ (storage = "google-drive" /\ ~gdToken) => call'.caught = DriveAuthError
            /\ call'.caught = DriveAuthError => (storage = "google-drive" /\ ~gdToken)
            /\ call'.caught = SupabaseAuthError => storage = "supabase"
            /\ call'.caught \in {DriveAuthError, SupabaseAuthError} =>
                  /\ UNCHANGED <<lsVars, sbVars, gdVars, nextId>>
                  /\ call'.errors = Append(call.errors, storage)
                  /\ call'.results = call.results
                  /\ call'.i = call.i + 1
                  /\ call'.status = "running"]_vars

\* the Cloud File store failed for want of a token, then the Relational store for
\* want of a session; the third backend is still to be attempted
C23_Witness ==
    /\ Running("storeData")
    /\ enabledStorages = <<"google-drive", "supabase", "local">>
    /\ ~gdToken
    /\ call.errors = <<"google-drive", "supabase">>
    /\ call.caught = SupabaseAuthError
    /\ call.i = 3
    /\ sbRows = {} /\ gdFiles = {}

\* the index entries of the configured user
UserIndex == getIndex(lsIndex, config.userId)

\* C24: Local store and delete calls of two sessions of one user are not safe
\* against interleaving.  The index is updated by an unserialized read-modify-write:
\* the index a call writes is the index it read with its own change, whatever the
\* other session has written to the index since that read, while the record entries
\* of both sessions stay; so two interleaved stores leave both records stored and
\* the index with an entry for only one of them
C24_IndexWriteIsReadModifyWrite ==
    [][\A s \in Sessions :
          (sessions[s].pc = "setItem" /\ sessions'[s].pc = "idle" /\ sessions'[s].ok) =>
              /\ UserIndex' =
                    IF sessions[s].op = "store"
                    THEN Append(sessions[s].read,
                             [id |-> sessions[s].id, dataType |-> sessions[s].dataType,
                              createdAt |-> sessions[s].t])
                    ELSE SelectSeq(sessions[s].read, LAMBDA e : e.id # sessions[s].id)
              /\ lsItems' = lsItems]_vars

\* two stores, both completed successfully, on a store that was empty: both records
\* are stored and the index has an entry for one of them only
C24_Witness ==
    /\ \A s \in Sessions :
          /\ sessions[s].pc = "idle" /\ sessions[s].op = "store" /\ sessions[s].ok
          /\ LsEntry(lsItems, config.userId, sessions[s].dataType, sessions[s].id) # {}
    /\ sessions["A"].id # sessions["B"].id
    /\ nextId = 3
    /\ Cardinality(lsItems) = 2
    /\ Len(UserIndex) = 1

\* the lists a retrieveData of the data type can return when it is called in the
\* present state: the answer of an enabled storage whose retrieve succeeds (the
\* storages before it can each fail)
RetrievableLists(dataType) ==
    UNION {AnswersOf(b, dataType) : b \in Range(enabledStorages)}

\* C25: read-your-writes: after storeData(v, t) has returned successfully, a
\* retrieveData(t) called next that returns successfully returns a list that
\* contains v (as JSON carries it), also when the store succeeded on only some of
\* the enabled backends
C25_ReadYourWrites ==
    Returned("storeData") =>
        \A list \in RetrievableLists(call.dataType) :
            JsonParse(JsonStringify(call.data)) \in Range(list)

\* C26: storeData counts a backend as successful (an entry in the returned map, no
\* error recorded) only if the record is persisted in that backend and the entry is
\* the identifier of the persisted record, whatever the remote service answered
C26_SuccessMeansPersisted ==
    call.op = "storeData" =>
        \A b \in DOMAIN call.results :
            /\ b \notin Range(call.errors)
            /\ call.results[b] \in
                  HeldIds(b, call.dataType, lsItems, sbRows, sbProfile, gdFiles)

\* C27: retrieveData and getStorageStats are read-only: no step of either changes
\* what a backend holds (record entries, index, rows, profile documents, files,
\* the folder), whatever the backend calls answer
C27_ReadsChangeNothing ==
    [][(Running("retrieveData") \/ Running("getStorageStats")) =>
           UNCHANGED <<lsItems, lsIndex, sbRows, sbProfile, gdFolder, gdFiles>>]_vars

\* the storage whose answer the retrieveData call returned
AnsweredBy == enabledStorages[Len(call.attempts)]

\* C28: data-type isolation: retrieveData(t) returns only records stored under
\* exactly the data type t, so never more records than the answering backend holds
\* under t, also when t is a prefix of another data type in use
C28_OnlyRecordsOfTheType ==
    Returned("retrieveData") =>
        Len(call.ret) <= Cardinality(HeldIds(AnsweredBy, call.dataType, lsItems, sbRows,
                                             sbProfile, gdFiles))

\* C29: in every state of the auth store reached by signups, changes of the
\* storage preferences, logouts and page reloads, isAuthenticated is true exactly
\* when the user is not null, and an authenticated store holds an encryption key
C29_AuthenticatedHasKey ==
    /\ auth.isAuthenticated <=> (auth.user # NullUser)
    /\ auth.isAuthenticated => auth.encryptionKey # Null

\* what the primary backend holds
PrimaryContents ==
    CASE primaryStorage = "local" -> <<lsItems, lsIndex>>
      [] primaryStorage = "supabase" -> <<sbRows, sbProfile>>
      [] primaryStorage = "google-drive" -> <<gdFolder, gdFiles>>
      [] OTHER -> <<>>

\* the stores a syncData issues when none fails: for each backend after the primary,
\* in order, one per record read
RECURSIVE SyncPlan(_)
SyncPlan(k) ==
    IF k > Len(enabledStorages) THEN <<>>
    ELSE [n \in 1..Len(call.primaryData) |->
             [storage |-> enabledStorages[k], item |-> call.primaryData[n]]]
         \o SyncPlan(k + 1)

\* no step of syncData changes the primary backend
SyncLeavesPrimary ==
    Running("syncData") => PrimaryContents' = PrimaryContents

\* the stores issued are the first of the plan; syncData fails with 'Sync failed' at
\* the first store that fails, which is the last store it issues; it returns only
\* with the whole plan issued
SyncStopsAtFirstFailure ==
    call.op = "syncData" =>
        /\ Len(call.writes) <= Len(SyncPlan(2))
        /\ \A k \in 1..Len(call.writes) :
              /\ call.writes[k].storage = SyncPlan(2)[k].storage
              /\ call.writes[k].item = SyncPlan(2)[k].item
              /\ ~call.writes[k].ok =>
                    /\ k = Len(call.writes)
                    /\ call.status = "thrown"
                    /\ call.message = "Sync failed"
        /\ (call.status = "thrown" /\ call.writes # <<>>) =>
              ~call.writes[Len(call.writes)].ok
        /\ call.status = "returned" => Len(call.writes) = Len(SyncPlan(2))

\* when syncData has failed, the records that its stores left in a backend are all
\* still there
CopiesStay ==
    Thrown("syncData") =>
        \A k \in 1..Len(call.writes) :
            call.writes[k].id # Undefined =>
                call.writes[k].id \in HeldIds(call.writes[k].storage, call.dataType,
                                              lsItems, sbRows, sbProfile, gdFiles)

\* nothing is undone: no step of syncData removes a record from a backend, except
\* that a Local store rejected as full removes what clearOldData evicts
NoRollback ==
    Running("syncData") =>
        /\ sbRows \subseteq sbRows'
        /\ \A u \in Users : sbProfile[u] \subseteq sbProfile'[u]
        /\ gdFiles \subseteq gdFiles'
        /\ \/ lsItems \subseteq lsItems'
           \/ clearOldData(lsItems, lsIndex, config.userId).items \subseteq lsItems'

\* C30, as stated: syncData never changes the primary backend, and it is not atomic:
\* when a store into another backend fails, syncData fails with 'Sync failed' at
\* that first failure, the records already copied stay in place and the remaining
\* records and backends are not written
C30_SyncFailsWithCopiesInPlace ==
    /\ [][SyncLeavesPrimary]_vars
    /\ []SyncStopsAtFirstFailure
    /\ []CopiesStay

\* C30, amended: syncData never changes the primary backend, and it is not atomic:
\* when a store into another backend fails, syncData fails with 'Sync failed' at
\* that first failure, it undoes none of the stores already made, and the remaining
\* records and backends are not written; a record copied into the Local backend
\* can still be evicted by the quota handling of a later Local store of the same
\* call
C30_SyncFailsWithoutRollback ==
    /\ [][SyncLeavesPrimary]_vars
    /\ []SyncStopsAtFirstFailure
    /\ [][NoRollback]_vars

\* the copy into the second backend is in place and the store into the third
\* failed: syncData failed, the copy is still there and the primary is as it was
C30_Witness ==
    /\ Thrown("syncData")
    /\ call.message = "Sync failed"
    /\ Len(enabledStorages) = 3
    /\ primaryStorage = "supabase"
    /\ sbRows \in EarlierRows
    /\ Len(call.writes) = 2
    /\ call.writes[1].ok /\ call.writes[1].id # Undefined
    /\ call.writes[1].id \in HeldIds(enabledStorages[2], call.dataType, lsItems, sbRows,
                                      sbProfile, gdFiles)
    /\ ~call.writes[2].ok
    /\ call.writes[2].storage = enabledStorages[3]

====
